---- MODULE Spec2Model ----
(***************************************************************************)
(* Hierarchical tag aggregation and mutation engine of the memos server.   *)
(*                                                                         *)
(* Strings are sequences of one-character strings, so that substring       *)
(* replacement, prefix tests and tag parsing are computed, not assumed.    *)
(***************************************************************************)
EXTENDS Integers, Sequences, FiniteSets, TLC

(***************************************************************************)
(* Bounds of the model.                                                    *)
(***************************************************************************)
MaxMemos == 2
MaxLen == 9
MaxSteps == 3

(***************************************************************************)
(* Go string primitives (package strings), on sequences of characters.     *)
(***************************************************************************)
HasPrefix(s, p) ==
    /\ Len(p) <= Len(s)
    /\ SubSeq(s, 1, Len(p)) = p

TrimPrefix(s, p) ==
    IF HasPrefix(s, p) THEN SubSeq(s, Len(p) + 1, Len(s)) ELSE s

\* strings.Contains: sub occurs somewhere in s.
StrContains(s, sub) ==
    \E i \in 1..(Len(s) - Len(sub) + 1) : SubSeq(s, i, i + Len(sub) - 1) = sub

\* strings.ReplaceAll for a non-empty old: non-overlapping, left to right.
RECURSIVE ReplaceAll(_, _, _)
ReplaceAll(s, old, new) ==
    IF Len(s) < Len(old) THEN s
    ELSE IF HasPrefix(s, old)
         THEN new \o ReplaceAll(SubSeq(s, Len(old) + 1, Len(s)), old, new)
         ELSE <<Head(s)>> \o ReplaceAll(Tail(s), old, new)

RECURSIVE TrimLeft(_, _)
TrimLeft(s, c) ==
    IF s # <<>> /\ Head(s) = c THEN TrimLeft(Tail(s), c) ELSE s

RECURSIVE TrimRight(_, _)
TrimRight(s, c) ==
    IF s # <<>> /\ s[Len(s)] = c THEN TrimRight(SubSeq(s, 1, Len(s) - 1), c) ELSE s

\* strings.Trim(s, cutset) for a one-character cutset.
Trim(s, c) == TrimRight(TrimLeft(s, c), c)

\* strings.TrimSpace; the only white space of the model's alphabet is " ".
TrimSpace(s) == Trim(s, " ")

\* strings.Split(s, sep) for a one-character sep: always at least one piece.
RECURSIVE SplitAcc(_, _, _)
SplitAcc(s, c, cur) ==
    IF s = <<>> THEN <<cur>>
    ELSE IF Head(s) = c THEN <<cur>> \o SplitAcc(Tail(s), c, <<>>)
         ELSE SplitAcc(Tail(s), c, Append(cur, Head(s)))

Split(s, c) == SplitAcc(s, c, <<>>)

\* strings.LastIndex for a one-character sep, 0-based, -1 when absent.
LastIndex(s, c) ==
    IF \E i \in 1..Len(s) : s[i] = c
    THEN (CHOOSE i \in 1..Len(s) : s[i] = c /\ \A j \in (i + 1)..Len(s) : s[j] # c) - 1
    ELSE -1

\* slices.Contains / contains(slice, item).
contains(slice, item) == \E i \in 1..Len(slice) : slice[i] = item

\* Byte values of the characters, for Go's string ordering.
Ord(c) ==
    CASE c = " " -> 32
      [] c = "#" -> 35
      [] c = "%" -> 37
      [] c = "/" -> 47
      [] c = "2" -> 50
      [] c = "F" -> 70
      [] c = "a" -> 97
      [] c = "b" -> 98
      [] c = "c" -> 99
      [] OTHER -> 120

\* Go's s < t on strings: bytewise lexicographic.
RECURSIVE StrLess(_, _)
StrLess(s, t) ==
    IF t = <<>> THEN FALSE
    ELSE IF s = <<>> THEN TRUE
    ELSE IF Head(s) # Head(t) THEN Ord(Head(s)) < Ord(Head(t))
    ELSE StrLess(Tail(s), Tail(t))

\* url.PathUnescape: "%2F" decodes to "/"; a "%" not followed by two hex
\* digits is an error (ok = FALSE).
RECURSIVE PathUnescape(_)
PathUnescape(s) ==
    IF s = <<>> THEN [ok |-> TRUE, val |-> <<>>]
    ELSE IF Head(s) = "%"
         THEN IF Len(s) >= 3 /\ s[2] = "2" /\ s[3] = "F"
              THEN LET r == PathUnescape(SubSeq(s, 4, Len(s)))
                   IN  [ok |-> r.ok, val |-> <<"/">> \o r.val]
              ELSE [ok |-> FALSE, val |-> <<>>]
         ELSE LET r == PathUnescape(Tail(s))
              IN  [ok |-> r.ok, val |-> <<Head(s)>> \o r.val]

(***************************************************************************)
(* Content tree.  A node is a record [type, content, children].            *)
(***************************************************************************)
Leaf(t, c) == [type |-> t, content |-> c, children |-> <<>>]
Container(t, ch) == [type |-> t, content |-> <<>>, children |-> ch]

\* Length of the longest prefix of s free of " " and "#": the extent of a
\* tag's content after its "#".
RECURSIVE TagExtent(_)
TagExtent(s) ==
    IF s = <<>> \/ Head(s) = " " \/ Head(s) = "#" THEN 0
    ELSE 1 + TagExtent(Tail(s))

\* Inline parse of one line: "#" followed by at least one character other
\* than " " and "#" is a Tag leaf, every other character is text.
RECURSIVE ParseInline(_)
ParseInline(s) ==
    IF s = <<>> THEN <<>>
    ELSE IF Head(s) = "#" /\ TagExtent(Tail(s)) > 0
         THEN LET n == TagExtent(Tail(s))
              IN  <<Leaf("Tag", SubSeq(s, 2, n + 1))>>
                      \o ParseInline(SubSeq(s, n + 2, Len(s)))
         ELSE <<Leaf("Text", <<Head(s)>>)>> \o ParseInline(Tail(s))

\* parser.Parse(tokenizer.Tokenize(content)): one paragraph per line; the
\* alphabet has no line break.
Parse(content) ==
    IF content = <<>> THEN <<>> ELSE <<Container("Paragraph", ParseInline(content))>>

\* restore.Restore: the text of a node list.
RECURSIVE Restore(_)
Restore(nodes) ==
    IF nodes = <<>> THEN <<>>
    ELSE LET n == Head(nodes)
             here == CASE n.type = "Tag" -> <<"#">> \o n.content
                       [] n.type = "Text" -> n.content
                       [] OTHER -> Restore(n.children)
         IN  here \o Restore(Tail(nodes))

\* The container kinds TraverseASTNodes descends into.
TraversedKinds ==
    {"Paragraph", "Heading", "Blockquote", "List", "OrderedListItem",
     "UnorderedListItem", "TaskListItem", "Bold"}

\* TraverseASTNodes: the nodes in the order fn is called on them.
RECURSIVE TraverseASTNodes(_)
TraverseASTNodes(nodes) ==
    IF nodes = <<>> THEN <<>>
    ELSE LET n == Head(nodes)
         IN  <<n>>
               \o (IF n.type \in TraversedKinds THEN TraverseASTNodes(n.children) ELSE <<>>)
               \o TraverseASTNodes(Tail(nodes))

\* The tags slice RebuildMemoPayload collects: first occurrences, in order.
RECURSIVE CollectTags(_, _)
CollectTags(visited, tags) ==
    IF visited = <<>> THEN tags
    ELSE LET n == Head(visited)
         IN  CollectTags(Tail(visited),
                 IF n.type = "Tag" /\ ~contains(tags, n.content)
                 THEN Append(tags, n.content) ELSE tags)

\* buildTagNode: only a tag that contains "/" gets the leading "/".
buildTagNode(tag) ==
    LET name == IF ~HasPrefix(tag, <<"/">>) /\ StrContains(tag, <<"/">>)
                THEN <<"/">> \o tag ELSE tag
        segments == Split(Trim(name, "/"), "/")
    IN  [Name |-> name,
         PathSegments |->
             IF HasPrefix(name, <<"/">>)
             THEN (IF Len(segments) > 0 /\ segments[1] # <<>> THEN segments ELSE <<>>)
             ELSE <<name>>]

\* RebuildMemoPayload: the Payload.Tags computed from the content.
RebuildMemoPayload(content) ==
    LET tags == CollectTags(TraverseASTNodes(Parse(content)), <<>>)
    IN  [i \in 1..Len(tags) |-> buildTagNode(tags[i])]

(***************************************************************************)
(* The entity store.  memos[id] is one row; UID and ID are the same key.   *)
(***************************************************************************)
VARIABLES memos, prev, req, resp, steps, given, result, calls, categories

vars == <<memos, prev, req, resp, steps, given, result, calls, categories>>

MemoIDs == 1..MaxMemos
Users == {"u1", "u2"}

NoMemo == [state |-> "none", CreatorID |-> "", Content |-> <<>>, Tags |-> <<>>]

\* Ids in ascending order: the iteration order of a listing.
RECURSIVE IdSeq(_, _)
IdSeq(S, from) ==
    IF from > MaxMemos THEN <<>>
    ELSE (IF from \in S THEN <<from>> ELSE <<>>) \o IdSeq(S, from + 1)

\* The path names of a tag cache.
TagNames(tags) == {tags[i].Name : i \in 1..Len(tags)}

\* Filter "tag in [t]": the cache holds exactly t.
TagInFilter(tags, t) == t \in TagNames(tags)

\* Filter "tag starts_with [p]": the cache holds p or a path under p + "/".
TagStartsWithFilter(tags, p) ==
    \E n \in TagNames(tags) : n = p \/ HasPrefix(n, p \o <<"/">>)

\* One entry of FindMemo.Filters applied to a row's cache; "" is no filter.
PassesFilter(tags, filter, arg) ==
    CASE filter = "tag in" -> TagInFilter(tags, arg)
      [] filter = "tag starts_with" -> TagStartsWithFilter(tags, arg)
      [] OTHER -> TRUE

\* Store.ListMemos(CreatorID, Filters): the ids of the creator's live rows
\* that pass the filter, in iteration order.
ListMemos(store, user, filter, arg) ==
    IdSeq({id \in MemoIDs : /\ store[id].state = "live"
                            /\ store[id].CreatorID = user
                            /\ PassesFilter(store[id].Tags, filter, arg)}, 1)

\* Store.UpdateMemo: only the fields given are written.
StoreUpdateContent(store, id, content) ==
    [store EXCEPT ![id].Content = content]

StoreUpdateContentPayload(store, id, content, tags) ==
    [store EXCEPT ![id].Content = content, ![id].Tags = tags]

\* Store.DeleteMemo: the row is gone.
StoreDeleteMemo(store, id) ==
    [store EXCEPT ![id] = [NoMemo EXCEPT !.state = "deleted"]]

(***************************************************************************)
(* Aggregator.                                                             *)
(***************************************************************************)
NewTagWithMemos(tagPath, uid) ==
    LET pathSegments == Split(Trim(tagPath, "/"), "/")
    IN  [Name |-> tagPath,
         PathSegments |-> IF Len(pathSegments) = 1 /\ pathSegments[1] = <<>>
                          THEN <<>> ELSE pathSegments,
         MemoIds |-> <<uid>>,
         DirectMemoCount |-> 1,
         TotalMemoCount |-> 1,
         ParentPath |-> <<>>,
         ChildPaths |-> <<>>]

\* The inner loop of aggregateTagsFromMemos over one memo's Payload.Tags.
RECURSIVE AggregateTags(_, _, _)
AggregateTags(tags, uid, tagMap) ==
    IF tags = <<>> THEN tagMap
    ELSE LET raw == Head(tags).Name
             tagPath == IF HasPrefix(raw, <<"/">>) THEN raw ELSE <<"/">> \o raw
             next ==
                 IF raw = <<>> THEN tagMap
                 ELSE IF tagPath \in DOMAIN tagMap
                 THEN [tagMap EXCEPT
                         ![tagPath].MemoIds =
                             IF contains(@, uid) THEN @ ELSE Append(@, uid),
                         ![tagPath].DirectMemoCount = @ + 1]
                 ELSE tagMap @@ (tagPath :> NewTagWithMemos(tagPath, uid))
         IN  AggregateTags(Tail(tags), uid, next)

\* aggregateTagsFromMemos: ids is the listing, store holds the rows.
RECURSIVE aggregateTagsFromMemos(_, _, _)
aggregateTagsFromMemos(ids, store, tagMap) ==
    IF ids = <<>> THEN tagMap
    ELSE aggregateTagsFromMemos(Tail(ids), store,
             AggregateTags(store[Head(ids)].Tags, Head(ids), tagMap))

EmptyTagMap == [n \in {} |-> 0]

\* No result has been computed.
NoResult == [name |-> <<>>, value |-> 0, done |-> FALSE]

(***************************************************************************)
(* Hierarchy builder.                                                      *)
(***************************************************************************)
\* A finite set of strings as a sequence in Go's string order.
RECURSIVE SortedSeq(_)
SortedSeq(S) ==
    IF S = {} THEN <<>>
    ELSE LET m == CHOOSE x \in S : \A y \in S \ {x} : StrLess(x, y)
         IN  <<m>> \o SortedSeq(S \ {m})

RECURSIVE Orderings(_)
Orderings(S) ==
    IF S = {} THEN {<<>>}
    ELSE UNION {{<<x>> \o p : p \in Orderings(S \ {x})} : x \in S}

\* calculateTotalMemoCount with its shared visited set threaded through:
\* the result is [total, visited].
RECURSIVE calculateTotalMemoCount(_, _, _)
RECURSIVE SumChildren(_, _, _, _)
calculateTotalMemoCount(name, tagMap, visited) ==
    IF name \in visited THEN [total |-> 0, visited |-> visited]
    ELSE SumChildren(tagMap[name].ChildPaths, tagMap, visited \cup {name},
                     tagMap[name].DirectMemoCount)

\* Variant of SumChildren in which every child starts from the visited set of
\* its parent.
RECURSIVE SumChildrenFresh(_, _, _, _)
SumChildrenFresh(childPaths, tagMap, visited, sum) ==
    IF childPaths = <<>> THEN [total |-> sum, visited |-> visited]
    ELSE IF Head(childPaths) \in DOMAIN tagMap
         THEN LET r == calculateTotalMemoCount(Head(childPaths), tagMap, visited)
              IN  SumChildrenFresh(Tail(childPaths), tagMap, visited, sum + r.total)
         ELSE SumChildrenFresh(Tail(childPaths), tagMap, visited, sum)

SumChildren(childPaths, tagMap, visited, sum) ==
    IF childPaths = <<>> THEN [total |-> sum, visited |-> visited]
    ELSE IF Head(childPaths) \in DOMAIN tagMap
         THEN LET r == calculateTotalMemoCount(Head(childPaths), tagMap, visited)
              IN  SumChildren(Tail(childPaths), tagMap, r.visited, sum + r.total)
         ELSE SumChildren(Tail(childPaths), tagMap, visited, sum)

\* The direct children of tagPath among the keys of the map.
DirectChildren(tagPath, names) ==
    {o \in names :
        /\ o # tagPath
        /\ HasPrefix(o, tagPath \o <<"/">>)
        /\ ~StrContains(TrimPrefix(o, tagPath \o <<"/">>), <<"/">>)}

\* Variant of HierarchyStep that links the parent path whether or not the
\* map holds it.
HierarchyStepAnyParent(tagPath, tagMap) ==
    LET withChildren ==
            [tagMap EXCEPT ![tagPath].ChildPaths =
                @ \o SortedSeq(DirectChildren(tagPath, DOMAIN tagMap))]
        lastSlash == LastIndex(tagPath, "/")
        withParent ==
            IF lastSlash > 0
            THEN [withChildren EXCEPT ![tagPath].ParentPath = SubSeq(tagPath, 1, lastSlash)]
            ELSE withChildren
    IN  [withParent EXCEPT ![tagPath].TotalMemoCount =
            calculateTotalMemoCount(tagPath, withParent, {}).total]

\* One iteration of the loop of addHierarchyInformation, on the tag named
\* tagPath: children, parent, then the total from the map as it is now.
HierarchyStep(tagPath, tagMap) ==
    LET withChildren ==
            [tagMap EXCEPT ![tagPath].ChildPaths =
                @ \o SortedSeq(DirectChildren(tagPath, DOMAIN tagMap))]
        lastSlash == LastIndex(tagPath, "/")
        parentPath == SubSeq(tagPath, 1, lastSlash)
        withParent ==
            IF lastSlash > 0 /\ parentPath \in DOMAIN tagMap
            THEN [withChildren EXCEPT ![tagPath].ParentPath = parentPath]
            ELSE withChildren
    IN  [withParent EXCEPT ![tagPath].TotalMemoCount =
            calculateTotalMemoCount(tagPath, withParent, {}).total]

\* addHierarchyInformation: the tags are processed in the order of the
\* slice; the nodes are shared with the map, so later iterations see the
\* fields earlier iterations wrote, and no others.
RECURSIVE addHierarchyInformation(_, _)
addHierarchyInformation(order, tagMap) ==
    IF order = <<>> THEN tagMap
    ELSE addHierarchyInformation(Tail(order), HierarchyStep(Head(order), tagMap))

(***************************************************************************)
(* Requests and responses.                                                 *)
(***************************************************************************)
NoReq ==
    [op |-> "none", user |-> "", path |-> <<>>, newPath |-> <<>>, flag |-> FALSE,
     dryRun |-> FALSE, strategy |-> "", parent |-> 0, failAt |-> 0]

Response(op, code) ==
    [op |-> op, code |-> code, ids |-> <<>>, paths |-> {}, renamed |-> {},
     tags |-> <<>>, count |-> 0, msg |-> <<>>]

\* The caller of the tag operations; u2 owns the entities of somebody else.
Callers == {"u1"}

\* Tag paths a request may carry: empty, flat, hierarchical, percent-encoded
\* "/a", and a malformed escape.
PathArgs ==
    {<<>>, <<"a">>, <<"a", "b">>, <<"/", "a">>, <<"/", "a", "/", "b">>,
     <<"%", "2", "F", "a">>, <<"%">>}

NewPathArgs == {<<>>, <<"b">>, <<"a", "/", "b">>}

\* Contents a memo is created with.
Contents ==
    {<<"#", "a">>,
     <<"#", "/", "a">>,
     <<"#", "a", " ", "#", "a", "/", "b">>,
     <<"#", "a", "/", "b", "/", "c">>,
     <<"b", " ", "#", "a", " ", "b", " ", "#", "a">>,
     <<"#", "a", "b", "#", "a", "#", "a", "b", "b">>}

\* The category table: no row in the specifications of the tag operations.
MaxCategories == 3
CategoryIDs == 1..MaxCategories
NoCategory == [ID |-> 0, RowStatus |-> "none", CreatorID |-> "", Name |-> <<>>,
               Path |-> <<>>, ParentID |-> 0]
NoCategories == [id \in CategoryIDs |-> NoCategory]

\* The handler calls that run concurrently and the position of each: none
\* in the specifications where every request runs alone.
Procs == {"p1", "p2"}
NoCall == [pc |-> "none", request |-> NoReq, ids |-> <<>>,
           listed |-> [id \in MemoIDs |-> NoMemo], code |-> ""]
NoCalls == [p \in Procs |-> NoCall]

Init ==
    /\ memos = [id \in MemoIDs |-> NoMemo]
    /\ prev = [id \in MemoIDs |-> NoMemo]
    /\ req = NoReq
    /\ resp = Response("none", "OK")
    /\ steps = 0
    /\ given = EmptyTagMap
    /\ result = NoResult
    /\ calls = NoCalls
    /\ categories = NoCategories

\* A handler runs from the stored rows alone and leaves its response:
\* prev keeps the rows it started from, steps counts the handler calls.
Ready == resp.op = "none" /\ steps < MaxSteps

Finish(store, request, response) ==
    /\ steps' = steps + 1
    /\ prev' = memos
    /\ memos' = store
    /\ req' = request
    /\ resp' = response
    /\ UNCHANGED <<given, result, calls, categories>>

(***************************************************************************)
(* MemoService.CreateMemo.                                                 *)
(***************************************************************************)
CreateMemo(user, content) ==
    LET free == {id \in MemoIDs : memos[id].state = "none"}
        id == CHOOSE i \in free : \A j \in free : i <= j
        create == [state |-> "live", CreatorID |-> user, Content |-> content,
                   Tags |-> RebuildMemoPayload(content)]
    IN  /\ Ready
        /\ free # {}
        /\ Finish([memos EXCEPT ![id] = create],
                  [NoReq EXCEPT !.op = "CreateMemo", !.user = user],
                  [Response("CreateMemo", "OK") EXCEPT !.ids = <<id>>])

(***************************************************************************)
(* TagService.ListTags and TagService.GetTag.                              *)
(***************************************************************************)
StripMemoIds(tagMap, includeMemoIds) ==
    [n \in DOMAIN tagMap |->
        IF includeMemoIds THEN tagMap[n] ELSE [tagMap[n] EXCEPT !.MemoIds = <<>>]]

\* GetTag clears the MemoIds of the requested tag alone.
StripMemoIdsOf(tagMap, tagPath, includeMemoIds) ==
    IF includeMemoIds THEN tagMap ELSE [tagMap EXCEPT ![tagPath].MemoIds = <<>>]

ListTagsResult(store, user, pathPrefix, includeMemoIds, includeHierarchy) ==
    LET tagMap == aggregateTagsFromMemos(ListMemos(store, user, "", <<>>), store,
                                         EmptyTagMap)
        kept == {n \in DOMAIN tagMap : pathPrefix = <<>> \/ HasPrefix(n, pathPrefix)}
        filtered == StripMemoIds([n \in kept |-> tagMap[n]], includeMemoIds)
        order == SortedSeq(kept)
        final == IF includeHierarchy THEN addHierarchyInformation(order, filtered)
                 ELSE filtered
    IN  [i \in 1..Len(order) |-> final[order[i]]]

ListTags(user, pathPrefix, includeMemoIds, includeHierarchy) ==
    /\ Ready
    /\ \E tags \in {ListTagsResult(memos, user, pathPrefix, includeMemoIds,
                                    includeHierarchy)} :
           Finish(memos,
                  [NoReq EXCEPT !.op = "ListTags", !.user = user, !.path = pathPrefix,
                                !.flag = includeHierarchy],
                  [Response("ListTags", "OK") EXCEPT !.tags = tags, !.count = Len(tags)])

\* The outcomes of GetTag: the slice handed to addHierarchyInformation is
\* filled by ranging over a map, so its order is any order.
GetTagResults(store, user, rawPath, includeMemoIds) ==
    LET un == PathUnescape(rawPath)
        tagPath == un.val
        tagMap == aggregateTagsFromMemos(ListMemos(store, user, "", <<>>), store,
                                         EmptyTagMap)
    IN  IF ~un.ok THEN {Response("GetTag", "InvalidArgument")}
        ELSE IF tagPath \notin DOMAIN tagMap THEN {Response("GetTag", "NotFound")}
        ELSE {[Response("GetTag", "OK") EXCEPT
                  !.tags = <<addHierarchyInformation(
                                 order, StripMemoIdsOf(tagMap, tagPath, includeMemoIds)
                             )[tagPath]>>] :
                 order \in Orderings(DOMAIN tagMap)}

GetTag(user, rawPath, includeMemoIds) ==
    /\ Ready
    /\ \E r \in GetTagResults(memos, user, rawPath, includeMemoIds) :
           Finish(memos,
                  [NoReq EXCEPT !.op = "GetTag", !.user = user, !.path = rawPath],
                  r)

(***************************************************************************)
(* TagService.RenameTag.                                                   *)
(***************************************************************************)
\* The marker of a path in raw content: "#" and the path without its
\* leading "/".
Marker(tagPath) == <<"#">> \o TrimPrefix(tagPath, <<"/">>)

\* Replacement of the first occurrence only.
RECURSIVE ReplaceFirst(_, _, _)
ReplaceFirst(s, old, new) ==
    IF Len(s) < Len(old) THEN s
    ELSE IF HasPrefix(s, old) THEN new \o SubSeq(s, Len(old) + 1, Len(s))
         ELSE <<Head(s)>> \o ReplaceFirst(Tail(s), old, new)

\* Variant of RenameContent that rewrites one occurrence per memo.
RenameContentFirstOnly(content, oldTagPath, newTagPath, moveChildren) ==
    ReplaceFirst(content, Marker(oldTagPath), Marker(newTagPath))

\* The content RenameTag writes for one memo.
RenameContent(content, oldTagPath, newTagPath, moveChildren) ==
    IF moveChildren
    THEN LET oldPrefix == Marker(oldTagPath)
             newPrefix == Marker(newTagPath)
         IN  ReplaceAll(content, oldPrefix, newPrefix)
    ELSE LET oldTag == Marker(oldTagPath)
             newTag == Marker(newTagPath)
         IN  ReplaceAll(content, oldTag, newTag)

\* The loop of RenameTag over the listing: the k-th memo of the listing is
\* position i; the store write of position failAt fails and ends the loop.
\* Only the content is handed to Store.UpdateMemo.
RECURSIVE RenameLoop(_, _, _, _, _, _, _, _)
\* Variant of RenameFilter that selects the subtree when moveChildren is set.
RenameFilterSubtree(moveChildren) ==
    IF moveChildren THEN "tag starts_with" ELSE "tag in"

\* The filter RenameTag queries with: both branches build "tag in".
RenameFilter(moveChildren) ==
    IF moveChildren THEN "tag in" ELSE "tag in"

RenameLoop(ids, i, listed, store, affected, oldTagPath, newTagPath, request) ==
    IF i > Len(ids) THEN [store |-> store, affected |-> affected, failed |-> FALSE]
    ELSE LET id == ids[i]
             newContent == RenameContent(listed[id].Content, oldTagPath, newTagPath,
                                         request.flag)
         IN  IF i = request.failAt
             THEN [store |-> store, affected |-> affected, failed |-> TRUE]
             ELSE RenameLoop(ids, i + 1, listed,
                             StoreUpdateContent(store, id, newContent),
                             Append(affected, id), oldTagPath, newTagPath, request)

RenameTag(user, rawOld, rawNew, moveChildren, failAt) ==
    LET request == [NoReq EXCEPT !.op = "RenameTag", !.user = user, !.path = rawOld,
                                 !.newPath = rawNew, !.flag = moveChildren,
                                 !.failAt = failAt]
        un == PathUnescape(rawOld)
        oldTagPath == un.val
        newTagPath == IF HasPrefix(rawNew, <<"/">>) THEN rawNew ELSE <<"/">> \o rawNew
    IN  /\ Ready
        /\ IF ~un.ok \/ rawNew = <<>>
           THEN failAt = 0
                /\ Finish(memos, request, Response("RenameTag", "InvalidArgument"))
           ELSE \E ids \in {ListMemos(memos, user, RenameFilter(moveChildren), oldTagPath)} :
                IF ids = <<>>
                THEN failAt = 0 /\ Finish(memos, request, Response("RenameTag", "NotFound"))
                ELSE /\ failAt \in 0..Len(ids)
                     /\ \E out \in {RenameLoop(ids, 1, memos, memos, <<>>, oldTagPath,
                                                newTagPath, request)} :
                          /\ \A id \in MemoIDs : Len(out.store[id].Content) <= MaxLen
                          /\ Finish(out.store, request,
                                    IF out.failed THEN Response("RenameTag", "Internal")
                                    ELSE [Response("RenameTag", "OK") EXCEPT
                                            !.ids = out.affected,
                                            !.renamed = {<<oldTagPath, newTagPath>>}])

(***************************************************************************)
(* TagService.DeleteTag.                                                   *)
(***************************************************************************)
Strategies == {"REMOVE_FROM_CONTENT", "DELETE_RELATED_MEMOS", "STRATEGY_UNSPECIFIED"}

\* Variant of SupportedStrategy without the default case.
AnyStrategy(strategy) == TRUE

\* The cases of the switch on request.Strategy; anything else is the default.
SupportedStrategy(strategy) ==
    strategy \in {"REMOVE_FROM_CONTENT", "DELETE_RELATED_MEMOS"}

\* Variant of RemoveFromContent that keeps the surrounding whitespace.
RemoveFromContentNoTrim(content, tagPath) ==
    ReplaceAll(ReplaceAll(content, Marker(tagPath) \o <<" ">>, <<>>),
               Marker(tagPath), <<>>)

\* The content the REMOVE_FROM_CONTENT branch writes for one memo.
RemoveFromContent(content, tagPath) ==
    LET tagToRemove == Marker(tagPath)
        first == ReplaceAll(content, tagToRemove \o <<" ">>, <<>>)
        second == ReplaceAll(first, tagToRemove, <<>>)
    IN  TrimSpace(second)

\* Variant of DeleteTagLoop that handles the first listed memo only.
DeleteTagLoopFirstOnly(ids, i, listed, store, affected, tagPath, request) ==
    IF ids = <<>> THEN [store |-> store, affected |-> affected, failed |-> FALSE]
    ELSE IF request.failAt = 1
    THEN [store |-> store, affected |-> affected, failed |-> TRUE]
    ELSE [store |-> IF request.strategy = "REMOVE_FROM_CONTENT"
                    THEN StoreUpdateContent(store, ids[1],
                             RemoveFromContent(listed[ids[1]].Content, tagPath))
                    ELSE StoreDeleteMemo(store, ids[1]),
          affected |-> <<ids[1]>>, failed |-> FALSE]

\* The loop of either branch of DeleteTag.
RECURSIVE DeleteTagLoop(_, _, _, _, _, _, _)
DeleteTagLoop(ids, i, listed, store, affected, tagPath, request) ==
    IF i > Len(ids) THEN [store |-> store, affected |-> affected, failed |-> FALSE]
    ELSE LET id == ids[i]
             next == IF request.strategy = "REMOVE_FROM_CONTENT"
                     THEN StoreUpdateContent(store, id,
                              RemoveFromContent(listed[id].Content, tagPath))
                     ELSE StoreDeleteMemo(store, id)
         IN  IF i = request.failAt
             THEN [store |-> store, affected |-> affected, failed |-> TRUE]
             ELSE DeleteTagLoop(ids, i + 1, listed, next, Append(affected, id),
                                tagPath, request)

DeleteTag(user, rawPath, strategy, failAt) ==
    LET request == [NoReq EXCEPT !.op = "DeleteTag", !.user = user, !.path = rawPath,
                                 !.strategy = strategy, !.failAt = failAt]
        un == PathUnescape(rawPath)
        tagPath == un.val
    IN  /\ Ready
        /\ IF ~un.ok
           THEN failAt = 0
                /\ Finish(memos, request, Response("DeleteTag", "InvalidArgument"))
           ELSE IF ~SupportedStrategy(strategy)
           THEN failAt = 0
                /\ Finish(memos, request, Response("DeleteTag", "InvalidArgument"))
           ELSE \E ids \in {ListMemos(memos, user, "tag in", tagPath)} :
                /\ failAt \in 0..Len(ids)
                /\ \E out \in {DeleteTagLoop(ids, 1, memos, memos, <<>>, tagPath,
                                              request)} :
                     Finish(out.store, request,
                            IF out.failed THEN Response("DeleteTag", "Internal")
                            ELSE [Response("DeleteTag", "OK") EXCEPT
                                    !.ids = out.affected, !.paths = {tagPath}])

\* Variant of DryRunPaths that reports the requested path alone.
DryRunPathsExact(ids, listed, tagPath, includeChildren) == {tagPath}

(***************************************************************************)
(* MemoService.BatchDeleteMemosByTag.                                      *)
(***************************************************************************)
\* The dry-run branch: the request's path, and with includeChildren every
\* cached name of a listed memo that has the path as a string prefix.
DryRunPaths(ids, listed, tagPath, includeChildren) ==
    {tagPath} \cup
        (IF includeChildren
         THEN {n \in UNION {TagNames(listed[ids[i]].Tags) : i \in 1..Len(ids)} :
                  HasPrefix(n, tagPath) /\ n # tagPath}
         ELSE {})

\* Variant of BatchDryRun that deletes what it lists.
BatchDryRunDeletes(ids, listed, request) ==
    [store |-> [id \in MemoIDs |->
                   IF contains(ids, id) THEN [NoMemo EXCEPT !.state = "deleted"]
                   ELSE listed[id]],
     deleted |-> ids,
     paths |-> DryRunPaths(ids, listed, request.path, request.flag),
     failed |-> FALSE]

\* The dry-run branch: nothing is written.
BatchDryRun(ids, listed, request) ==
    [store |-> listed, deleted |-> ids,
     paths |-> DryRunPaths(ids, listed, request.path, request.flag),
     failed |-> FALSE]

\* Variant of CollectAffected that keeps the exact match only.
CollectAffectedExact(tags, tagPath, includeChildren) ==
    {n \in TagNames(tags) : n = tagPath}

\* The names one memo adds to affectedTagPaths before it is deleted.
CollectAffected(tags, tagPath, includeChildren) ==
    {n \in TagNames(tags) :
        IF includeChildren /\ HasPrefix(n, tagPath) THEN TRUE ELSE n = tagPath}

\* Variant of BatchDeleteLoop that restores the listing when a delete fails.
BatchDeleteLoopRollback(ids, i, listed, store, deleted, affectedPaths, request) ==
    IF request.failAt \in 1..Len(ids)
    THEN [store |-> listed, deleted |-> <<>>, paths |-> affectedPaths, failed |-> TRUE]
    ELSE [store |-> [id \in MemoIDs |->
                        IF contains(ids, id) THEN [NoMemo EXCEPT !.state = "deleted"]
                        ELSE listed[id]],
          deleted |-> ids,
          paths |-> affectedPaths \cup
                        UNION {CollectAffected(listed[id].Tags, request.path, request.flag) :
                                  id \in {ids[k] : k \in 1..Len(ids)}},
          failed |-> FALSE]

\* The deletion loop; affectedTagPaths starts with the request's path.
RECURSIVE BatchDeleteLoop(_, _, _, _, _, _, _)
BatchDeleteLoop(ids, i, listed, store, deleted, affectedPaths, request) ==
    IF i > Len(ids)
    THEN [store |-> store, deleted |-> deleted, paths |-> affectedPaths, failed |-> FALSE]
    ELSE LET id == ids[i]
             collected == affectedPaths \cup
                 CollectAffected(listed[id].Tags, request.path, request.flag)
         IN  IF i = request.failAt
             THEN [store |-> store, deleted |-> deleted, paths |-> collected,
                   failed |-> TRUE]
             ELSE BatchDeleteLoop(ids, i + 1, listed, StoreDeleteMemo(store, id),
                                  Append(deleted, id), collected, request)

BatchDeleteMemosByTag(user, tagPath, includeChildren, dryRun, failAt) ==
    LET request == [NoReq EXCEPT !.op = "BatchDeleteMemosByTag", !.user = user,
                                 !.path = tagPath, !.flag = includeChildren,
                                 !.dryRun = dryRun, !.failAt = failAt]
        filter == IF includeChildren THEN "tag starts_with" ELSE "tag in"
    IN  /\ Ready
        /\ IF tagPath = <<>>
           THEN failAt = 0
                /\ Finish(memos, request,
                          Response("BatchDeleteMemosByTag", "InvalidArgument"))
           ELSE \E ids \in {ListMemos(memos, user, filter, tagPath)} :
                IF dryRun
                THEN /\ failAt = 0
                     /\ \E out \in {BatchDryRun(ids, memos, request)} :
                          Finish(out.store, request,
                                 [Response("BatchDeleteMemosByTag", "OK") EXCEPT
                                     !.ids = out.deleted,
                                     !.count = Len(out.deleted),
                                     !.paths = out.paths])
                ELSE /\ failAt \in 0..Len(ids)
                     /\ \E out \in {BatchDeleteLoop(ids, 1, memos, memos, <<>>,
                                                     {tagPath}, request)} :
                          Finish(out.store, request,
                                 IF out.failed
                                 THEN Response("BatchDeleteMemosByTag", "Internal")
                                 ELSE [Response("BatchDeleteMemosByTag", "OK") EXCEPT
                                         !.ids = out.deleted,
                                         !.count = Len(out.deleted),
                                         !.paths = out.paths])

(***************************************************************************)
(* MemoService.RenameMemoTag and MemoService.DeleteMemoTag.                *)
(***************************************************************************)
\* The parent "memos/-"; any other parent is "memos/" and a memo's UID.
AllMemos == 0

RenameGlobalMessage ==
    <<"Global tag operations are no longer supported.", "Use", "TagService.RenameTag",
      "for global tag renaming.">>

DeleteGlobalMessage ==
    <<"Global tag operations are no longer supported.", "Use", "TagService.DeleteTag",
      "to remove tags globally, or", "MemoService.BatchDeleteMemosByTag",
      "to delete memos.">>

\* Variant of IsGlobalParent that lets every parent through.
NeverGlobalParent(parent) == FALSE

\* The guard that rejects the operation on all memos.
IsGlobalParent(parent) == parent = AllMemos

\* The container kinds removeTagFromNodes rebuilds.
RemoverKinds == TraversedKinds \cup {"Italic"}

\* The callback of RenameMemoTag applied through TraverseASTNodes.
RECURSIVE RenameTagInNodes(_, _, _)
RenameTagInNodes(nodes, oldTag, newTag) ==
    IF nodes = <<>> THEN <<>>
    ELSE LET n == Head(nodes)
             m == IF n.type = "Tag" /\ n.content = oldTag
                  THEN [n EXCEPT !.content = newTag]
                  ELSE IF n.type \in TraversedKinds
                  THEN [n EXCEPT !.children = RenameTagInNodes(n.children, oldTag, newTag)]
                  ELSE n
         IN  <<m>> \o RenameTagInNodes(Tail(nodes), oldTag, newTag)

\* Variant of removeTagFromNodes that leaves the children of containers alone.
removeTagFromNodesShallow(nodes, tagToRemove) ==
    SelectSeq(nodes, LAMBDA n : ~(n.type = "Tag" /\ n.content = tagToRemove))

RECURSIVE removeTagFromNodes(_, _)
removeTagFromNodes(nodes, tagToRemove) ==
    IF nodes = <<>> THEN <<>>
    ELSE LET n == Head(nodes)
             kept == IF n.type = "Tag"
                     THEN (IF n.content # tagToRemove THEN <<n>> ELSE <<>>)
                     ELSE IF n.type \in RemoverKinds
                     THEN <<[n EXCEPT !.children =
                                removeTagFromNodes(n.children, tagToRemove)]>>
                     ELSE <<n>>
         IN  kept \o removeTagFromNodes(Tail(nodes), tagToRemove)

\* The listing of the single-memo operations: creator, UID and tag filter.
ListOneMemo(store, user, parent, tag) ==
    LET ids == ListMemos(store, user, "tag in", tag)
    IN  SelectSeq(ids, LAMBDA id : id = parent)

\* The content a single-memo operation writes: parse, edit the tree,
\* restore.
EditedContent(content, request) ==
    IF request.op = "RenameMemoTag"
    THEN Restore(RenameTagInNodes(Parse(content), request.path, request.newPath))
    ELSE Restore(removeTagFromNodes(Parse(content), request.path))

\* The loop of the single-memo operations: content and payload are
\* rebuilt and written together.
RECURSIVE EditLoop(_, _, _, _)
EditLoop(ids, listed, store, request) ==
    IF ids = <<>> THEN store
    ELSE LET id == Head(ids)
             content == EditedContent(listed[id].Content, request)
         IN  EditLoop(Tail(ids), listed,
                      StoreUpdateContentPayload(store, id, content,
                                                RebuildMemoPayload(content)),
                      request)

RenameMemoTag(user, parent, oldTag, newTag) ==
    LET request == [NoReq EXCEPT !.op = "RenameMemoTag", !.user = user,
                                 !.parent = parent, !.path = oldTag, !.newPath = newTag]
    IN  /\ Ready
        /\ IF IsGlobalParent(parent)
           THEN Finish(memos, request,
                       [Response("RenameMemoTag", "InvalidArgument") EXCEPT
                           !.msg = RenameGlobalMessage])
           ELSE \E store \in {EditLoop(ListOneMemo(memos, user, parent, oldTag),
                                       memos, memos, request)} :
                /\ \A id \in MemoIDs : Len(store[id].Content) <= MaxLen
                /\ Finish(store, request, Response("RenameMemoTag", "OK"))

DeleteMemoTag(user, parent, tag) ==
    LET request == [NoReq EXCEPT !.op = "DeleteMemoTag", !.user = user,
                                 !.parent = parent, !.path = tag]
    IN  /\ Ready
        /\ IF IsGlobalParent(parent)
           THEN Finish(memos, request,
                       [Response("DeleteMemoTag", "InvalidArgument") EXCEPT
                           !.msg = DeleteGlobalMessage])
           ELSE \E store \in {EditLoop(ListOneMemo(memos, user, parent, tag),
                                       memos, memos, request)} :
                Finish(store, request, Response("DeleteMemoTag", "OK"))

(***************************************************************************)
(* Specification.                                                          *)
(***************************************************************************)
TagArgs == {<<"a">>, <<"/", "a", "/", "b">>}

\* The response has been delivered; the next request finds the rows only.
Return ==
    /\ resp.op # "none"
    /\ resp' = Response("none", "OK")
    /\ req' = NoReq
    /\ prev' = memos
    /\ UNCHANGED <<memos, steps, given, result, calls, categories>>

Next ==
    \/ \E u \in Users, c \in Contents : CreateMemo(u, c)
    \/ \E u \in Callers, p \in PathArgs, h \in BOOLEAN : ListTags(u, p, TRUE, h)
    \/ \E u \in Callers, p \in PathArgs : GetTag(u, p, TRUE)
    \/ \E u \in Callers, p \in PathArgs, n \in NewPathArgs, mc \in BOOLEAN,
          f \in 0..MaxMemos : RenameTag(u, p, n, mc, f)
    \/ \E u \in Callers, p \in PathArgs, s \in Strategies, f \in 0..MaxMemos :
          DeleteTag(u, p, s, f)
    \/ \E u \in Callers, p \in PathArgs, ic \in BOOLEAN, d \in BOOLEAN,
          f \in 0..MaxMemos : BatchDeleteMemosByTag(u, p, ic, d, f)
    \/ \E u \in Callers, m \in {AllMemos} \cup MemoIDs, t \in TagArgs :
          RenameMemoTag(u, m, t, <<"b">>)
    \/ \E u \in Callers, m \in {AllMemos} \cup MemoIDs, t \in TagArgs :
          DeleteMemoTag(u, m, t)
    \/ Return

Spec == Init /\ [][Next]_vars

(***************************************************************************)
(* The tag listing over contents with repeated and unusual tags.           *)
(***************************************************************************)
\* Contents whose tags meet after normalisation: a flat tag next to its
\* slash-prefixed form, one hierarchical tag written with and without the
\* leading slash, a chain of three levels, and a tag that ends in a slash.
TagContents ==
    {<<"#", "a">>,
     <<"#", "a", " ", "#", "/", "a">>,
     <<"#", "a", "/", "b", " ", "#", "/", "a", "/", "b">>,
     <<"#", "a", "/", "b", "/", "c">>,
     <<"#", "a", " ", "#", "a", "/", "b">>,
     <<"#", "a", "/">>}

TagPathArgs == {<<>>, <<"/", "a">>, <<"/", "a", "/", "b">>, <<"a">>}

TagNext ==
    \/ \E u \in Users, c \in TagContents : CreateMemo(u, c)
    \/ \E u \in Callers, p \in TagPathArgs, h \in BOOLEAN : ListTags(u, p, TRUE, h)
    \/ \E u \in Callers, p \in TagPathArgs : GetTag(u, p, TRUE)
    \/ Return

TagSpec == Init /\ [][TagNext]_vars

(***************************************************************************)
(* calculateTotalMemoCount on manufactured maps.                           *)
(***************************************************************************)
MaxDirect == 2
MaxChildren == 2

NodeNames == {<<"/", "a">>, <<"/", "b">>, <<"/", "c">>}

\* A child path may name a node, the node itself included, or no node.
ChildNames == NodeNames \cup {<<"/", "x">>}

ChildLists ==
    {SortedSeq(S) : S \in {T \in SUBSET ChildNames : Cardinality(T) <= MaxChildren}}

ManufacturedNode(name, children, direct) ==
    [NewTagWithMemos(name, 1) EXCEPT !.ChildPaths = children,
                                     !.DirectMemoCount = direct,
                                     !.TotalMemoCount = direct]

\* Maps whose child lists are arbitrary: cycles, shared children, dangling
\* paths.
ManufacturedMaps ==
    {[n \in NodeNames |-> ManufacturedNode(n, ch[n], d[n])] :
        ch \in [NodeNames -> ChildLists], d \in [NodeNames -> 1..MaxDirect]}

TotalInit ==
    /\ memos = [id \in MemoIDs |-> NoMemo]
    /\ prev = [id \in MemoIDs |-> NoMemo]
    /\ req = NoReq
    /\ resp = Response("none", "OK")
    /\ steps = 0
    /\ given \in ManufacturedMaps
    /\ result = NoResult
    /\ calls = NoCalls
    /\ categories = NoCategories

\* One call calculateTotalMemoCount(tag, tagMap, make(map[string]bool)).
ComputeTotal(name) ==
    /\ ~result.done
    /\ result' = [name |-> name,
                  value |-> calculateTotalMemoCount(name, given, {}).total,
                  done |-> TRUE]
    /\ UNCHANGED <<memos, prev, req, resp, steps, given, calls, categories>>

TotalNext == \E name \in NodeNames : ComputeTotal(name)

TotalSpec == TotalInit /\ [][TotalNext]_vars

(***************************************************************************)
(* removeTagFromNodes on manufactured node lists.                          *)
(***************************************************************************)
\* Leaves: two tags, a text and a node kind without children.
TreeLeaves ==
    {Leaf("Tag", <<"a">>), Leaf("Tag", <<"b">>), Leaf("Text", <<" ">>),
     Leaf("Code", <<"a">>)}

\* The lists of at most two elements of S.
ShortLists(S) == {<<>>} \cup {<<x>> : x \in S} \cup {<<x, y>> : x \in S, y \in S}

\* Inline nodes: a leaf, or bold or italic text around leaves.
InlineNodes ==
    TreeLeaves \cup {Container(k, c) : k \in {"Bold", "Italic"},
                                      c \in ShortLists(TreeLeaves)}

\* Block nodes around inline nodes.
BlockNodes ==
    {Container(k, c) : k \in {"Paragraph", "Heading"}, c \in ShortLists(InlineNodes)}

\* Node lists as parser.Parse returns them: a block, or a block between two
\* top-level leaves.
ManufacturedTrees ==
    {<<b>> : b \in BlockNodes}
        \cup {<<Leaf("Tag", <<"a">>), b, Leaf("Code", <<"a">>)>> :
                 b \in {Container("Blockquote", <<c>>) :
                            c \in {Container("Paragraph", <<l>>) : l \in InlineNodes}}}

TreeInit ==
    /\ memos = [id \in MemoIDs |-> NoMemo]
    /\ prev = [id \in MemoIDs |-> NoMemo]
    /\ req = NoReq
    /\ resp = Response("none", "OK")
    /\ steps = 0
    /\ given \in ManufacturedTrees
    /\ result = NoResult
    /\ calls = NoCalls
    /\ categories = NoCategories

\* One call removeTagFromNodes(nodes, request.Tag).
RemoveTag(tagToRemove) ==
    /\ ~result.done
    /\ result' = [name |-> tagToRemove,
                  value |-> removeTagFromNodes(given, tagToRemove),
                  done |-> TRUE]
    /\ UNCHANGED <<memos, prev, req, resp, steps, given, calls, categories>>

TreeNext == \E t \in {<<"a">>, <<"b">>, <<"c">>} : RemoveTag(t)

TreeSpec == TreeInit /\ [][TreeNext]_vars

(***************************************************************************)
(* Tag extraction on manufactured node lists.                              *)
(***************************************************************************)
\* The traversal and the callback of RebuildMemoPayload on a node list.
ExtractTags ==
    /\ ~result.done
    /\ result' = [name |-> <<>>,
                  value |-> CollectTags(TraverseASTNodes(given), <<>>),
                  done |-> TRUE]
    /\ UNCHANGED <<memos, prev, req, resp, steps, given, calls, categories>>

ExtractNext == ExtractTags

ExtractSpec == TreeInit /\ [][ExtractNext]_vars

(***************************************************************************)
(* Two DeleteMemoTag calls running concurrently on one memo.  The handler  *)
(* holds no lock and opens no transaction: its ListMemos call and its      *)
(* UpdateMemo call are two store calls, and calls of other requests may    *)
(* come between them.                                                      *)
(***************************************************************************)
\* Contents of the memo both calls address: two or more tags each.
ConcContents ==
    {<<"#", "a", " ", "#", "b">>,
     <<"#", "a", " ", "#", "b", " ", "#", "c">>,
     <<"#", "b", " ", "#", "a", "/", "b">>,
     <<"a", " ", "#", "a", " ", "#", "b">>,
     <<"#", "a", " ", "b", " ", "#", "b">>}

\* The memo both calls address.
ConcMemo == 1

\* A stored memo, and two requests that name different tags of its cache.
ConcInit ==
    /\ \E content \in ConcContents :
          LET create == [state |-> "live", CreatorID |-> "u1", Content |-> content,
                         Tags |-> RebuildMemoPayload(content)]
          IN  /\ memos = [id \in MemoIDs |-> IF id = ConcMemo THEN create ELSE NoMemo]
              /\ \E t1, t2 \in TagNames(create.Tags) :
                    /\ t1 # t2
                    /\ calls = [p \in Procs |->
                                  [NoCall EXCEPT
                                     !.pc = "list",
                                     !.request = [NoReq EXCEPT
                                                    !.op = "DeleteMemoTag",
                                                    !.user = "u1",
                                                    !.parent = ConcMemo,
                                                    !.path = IF p = "p1" THEN t1
                                                             ELSE t2]]]
    /\ prev = memos
    /\ req = NoReq
    /\ resp = Response("none", "OK")
    /\ steps = 0
    /\ given = EmptyTagMap
    /\ result = NoResult
    /\ categories = NoCategories

\* The call's ListMemos: it keeps the rows it was given.
DeleteMemoTagList(p) ==
    LET request == calls[p].request
    IN  /\ calls[p].pc = "list"
        /\ calls' = [calls EXCEPT
                       ![p].pc = "update",
                       ![p].ids = ListOneMemo(memos, request.user, request.parent,
                                              request.path),
                       ![p].listed = memos]
        /\ UNCHANGED <<memos, prev, req, resp, steps, given, result, categories>>

\* The call's loop: the content and the payload computed from the rows it
\* kept are written to the store as it is now, and the call returns.
DeleteMemoTagUpdate(p) ==
    /\ calls[p].pc = "update"
    /\ memos' = EditLoop(calls[p].ids, calls[p].listed, memos, calls[p].request)
    /\ calls' = [calls EXCEPT ![p].pc = "done", ![p].code = "OK"]
    /\ UNCHANGED <<prev, req, resp, steps, given, result, categories>>

ConcNext ==
    \/ \E p \in Procs : DeleteMemoTagList(p)
    \/ \E p \in Procs : DeleteMemoTagUpdate(p)

ConcSpec == ConcInit /\ [][ConcNext]_vars

(***************************************************************************)
(* The category store: CreateCategory and UpdateCategory.                  *)
(***************************************************************************)
MaxCategoryNameLength == 100
MaxCategoryPathLength == 500
MaxCategoryDepth == 10

\* Calls made to the category store in one behaviour.
MaxCalls == 4

\* CategoryNameRegex: one to a hundred letters, digits, white space, "-",
\* "_" or "."; of the model's alphabet only "/", "#" and "%" are none of
\* these.
ValidCategoryName(name) ==
    /\ name # <<>>
    /\ Len(name) <= MaxCategoryNameLength
    /\ \A i \in 1..Len(name) : name[i] \notin {"/", "#", "%"}

\* strings.Join(segments, "/").
RECURSIVE JoinSegments(_)
JoinSegments(segments) ==
    IF segments = <<>> THEN <<>>
    ELSE IF Len(segments) = 1 THEN segments[1]
    ELSE segments[1] \o <<"/">> \o JoinSegments(Tail(segments))

\* path.Clean on the segments of a path that is not rooted: empty and "."
\* segments go, ".." takes the segment before it away and stays when there
\* is none.
RECURSIVE CleanSegments(_, _)
CleanSegments(segments, out) ==
    IF segments = <<>> THEN out
    ELSE LET seg == Head(segments)
             next == IF seg = <<>> \/ seg = <<".">> THEN out
                     ELSE IF seg = <<".", ".">>
                          THEN (IF out # <<>> /\ out[Len(out)] # <<".", ".">>
                                THEN SubSeq(out, 1, Len(out) - 1)
                                ELSE Append(out, seg))
                     ELSE Append(out, seg)
         IN  CleanSegments(Tail(segments), next)

\* path.Join(a, b): empty elements are ignored, the rest joined by "/" and
\* cleaned; the empty result is ".".
PathJoin(a, b) ==
    LET joined == IF a = <<>> THEN b ELSE IF b = <<>> THEN a ELSE a \o <<"/">> \o b
        cleaned == JoinSegments(CleanSegments(Split(joined, "/"), <<>>))
    IN  IF joined = <<>> THEN <<>>
        ELSE IF cleaned = <<>> THEN <<".">> ELSE cleaned

\* The rows ListCategories returns for a parent id, a creator and NORMAL,
\* newest first.
RECURSIVE ChildRows(_, _, _)
ChildRows(table, parentCategory, id) ==
    IF id = 0 THEN <<>>
    ELSE (IF /\ table[id].RowStatus = "NORMAL"
             /\ table[id].ParentID = parentCategory.ID
             /\ table[id].CreatorID = parentCategory.CreatorID
          THEN <<table[id]>> ELSE <<>>)
         \o ChildRows(table, parentCategory, id - 1)

\* buildCategoryPath: the name alone without a parent, otherwise the stored
\* path of the parent row joined with the name.
buildCategoryPath(table, category) ==
    IF category.ParentID = 0 THEN [ok |-> TRUE, Path |-> category.Name]
    ELSE LET found == category.ParentID \in CategoryIDs
                          /\ table[category.ParentID].RowStatus = "NORMAL"
                          /\ table[category.ParentID].CreatorID = category.CreatorID
         IN  IF ~found THEN [ok |-> FALSE, Path |-> <<>>]
             ELSE [ok |-> TRUE,
                   Path |-> PathJoin(table[category.ParentID].Path, category.Name)]

\* validateCategoryPath: length, depth, and no NORMAL row of the creator
\* with this path.
validateCategoryPath(table, categoryPath, creatorID) ==
    /\ Len(categoryPath) <= MaxCategoryPathLength
    /\ Len(Split(categoryPath, "/")) <= MaxCategoryDepth
    /\ ~\E id \in CategoryIDs :
          /\ table[id].RowStatus = "NORMAL"
          /\ table[id].CreatorID = creatorID
          /\ table[id].Path = categoryPath

\* updateChildCategoryPaths: every child row is rebuilt from the parent row
\* as the table holds it and written, then its own children.  The descent
\* has no end when the parent links form a cycle: stopped is that outcome,
\* the rows written so far stay.
RECURSIVE updateChildCategoryPaths(_, _, _)
RECURSIVE UpdateChildLoop(_, _, _)
updateChildCategoryPaths(table, parentCategory, depth) ==
    IF depth > MaxCategories THEN [table |-> table, failed |-> TRUE]
    ELSE UpdateChildLoop(table, ChildRows(table, parentCategory, MaxCategories), depth)

UpdateChildLoop(table, children, depth) ==
    IF children = <<>> THEN [table |-> table, failed |-> FALSE]
    ELSE LET child == Head(children)
             built == buildCategoryPath(table, child)
             written == [table EXCEPT ![child.ID].Path = built.Path]
             below == updateChildCategoryPaths(written,
                                               [child EXCEPT !.Path = built.Path],
                                               depth + 1)
         IN  IF ~built.ok THEN [table |-> table, failed |-> TRUE]
             ELSE IF below.failed THEN below
             ELSE UpdateChildLoop(below.table, Tail(children), depth)

\* An absent name of an update, and an absent parent id.
NilName == <<"nil">>
NilParent == 0

CategoryNames == {<<"a">>, <<"b">>, <<".">>, <<"a", "/", "b">>}

CategoryInit ==
    /\ memos = [id \in MemoIDs |-> NoMemo]
    /\ prev = [id \in MemoIDs |-> NoMemo]
    /\ req = NoReq
    /\ resp = Response("none", "OK")
    /\ steps = 0
    /\ given = EmptyTagMap
    /\ result = NoResult
    /\ calls = NoCalls
    /\ categories = NoCategories

\* Store.CreateCategory; the driver gives the new row the next id.
CreateCategory(creator, name, parentID) ==
    LET free == {id \in CategoryIDs : categories[id].RowStatus = "none"}
        id == CHOOSE i \in free : \A j \in free : i <= j
        create == [ID |-> id, RowStatus |-> "NORMAL", CreatorID |-> creator,
                   Name |-> name, Path |-> <<>>, ParentID |-> parentID]
        built == buildCategoryPath(categories, create)
    IN  /\ steps < MaxCalls
        /\ free # {}
        /\ steps' = steps + 1
        /\ categories' =
              IF /\ ValidCategoryName(name)
                 /\ built.ok
                 /\ validateCategoryPath(categories, built.Path, creator)
              THEN [categories EXCEPT ![id] = [create EXCEPT !.Path = built.Path]]
              ELSE categories
        /\ UNCHANGED <<memos, prev, req, resp, given, result, calls>>

\* The driver's UpdateCategory: the fields given are set.
DriverUpdateCategory(table, id, name, path, parentID) ==
    [table EXCEPT ![id] =
        [@ EXCEPT !.Name = IF name = NilName THEN @ ELSE name,
                  !.Path = path,
                  !.ParentID = IF parentID = NilParent THEN @ ELSE parentID]]

\* Store.UpdateCategory with a name, a parent id or both.
UpdateCategory(id, name, parentID) ==
    LET existing == categories[id]
        newCategory == [existing EXCEPT
                           !.Name = IF name = NilName THEN @ ELSE name,
                           !.ParentID = IF parentID = NilParent THEN @ ELSE parentID]
        built == buildCategoryPath(categories, newCategory)
        below == IF name # NilName /\ name # existing.Name
                 THEN updateChildCategoryPaths(categories, existing, 1)
                 ELSE [table |-> categories, failed |-> FALSE]
    IN  /\ steps < MaxCalls
        /\ name # NilName \/ parentID # NilParent
        /\ steps' = steps + 1
        /\ categories' =
              IF \/ existing.RowStatus = "none"
                 \/ name # NilName /\ ~ValidCategoryName(name)
                 \/ ~built.ok
                 \/ ~validateCategoryPath(categories, built.Path, existing.CreatorID)
              THEN categories
              ELSE IF below.failed THEN below.table
              ELSE DriverUpdateCategory(below.table, id, name, built.Path, parentID)
        /\ UNCHANGED <<memos, prev, req, resp, given, result, calls>>

CategoryNext ==
    \/ \E name \in CategoryNames, parentID \in {NilParent} \cup CategoryIDs :
          CreateCategory("u1", name, parentID)
    \/ \E id \in CategoryIDs, name \in CategoryNames \cup {NilName},
          parentID \in {NilParent} \cup CategoryIDs :
          UpdateCategory(id, name, parentID)

CategorySpec == CategoryInit /\ [][CategoryNext]_vars

(***************************************************************************)
(* Properties.                                                             *)
(***************************************************************************)
Range(seq) == {seq[i] : i \in 1..Len(seq)}

\* The totalCount the listing reports for the node named name.
ListedTotal(tags, name) ==
    LET hit == {i \in 1..Len(tags) : tags[i].Name = name}
    IN  IF hit = {} THEN 0 ELSE tags[CHOOSE i \in hit : TRUE].TotalMemoCount

\* The sum of the totalCount the listing reports for each name of names.
RECURSIVE SumListedTotals(_, _)
SumListedTotals(tags, names) ==
    IF names = <<>> THEN 0
    ELSE ListedTotal(tags, Head(names)) + SumListedTotals(tags, Tail(names))

\* C1: after hierarchy computation every node P returned by ListTags has
\* totalCount(P) = directCount(P) + the sum of totalCount(C) over the
\* children C listed in childPaths(P).
C1_TotalCountRollsUp ==
    (resp.op = "ListTags" /\ req.flag) =>
        \A i \in 1..Len(resp.tags) :
            LET P == resp.tags[i]
            IN  P.TotalMemoCount =
                    P.DirectMemoCount + SumListedTotals(resp.tags, P.ChildPaths)

\* The caller's live entities whose cache holds exactly path.
CallerMatches(store, user, path) ==
    {id \in MemoIDs : /\ store[id].state = "live"
                      /\ store[id].CreatorID = user
                      /\ \E i \in 1..Len(store[id].Tags) : store[id].Tags[i].Name = path}

\* "#" followed by the path without its leading slash.
MarkerOf(path) ==
    <<"#">> \o (IF path # <<>> /\ Head(path) = "/" THEN Tail(path) ELSE path)

\* A RenameTag request that passes validation and meets no store failure.
ValidRename ==
    /\ resp.op = "RenameTag"
    /\ PathUnescape(req.path).ok
    /\ req.newPath # <<>>
    /\ req.failAt = 0

C3_CacheMatchesContent ==
    (/\ resp.op = "RenameTag" \/ (resp.op = "DeleteTag"
                                    /\ req.strategy = "REMOVE_FROM_CONTENT")
     /\ resp.code = "OK") =>
        \A id \in Range(resp.ids) :
            memos[id].Tags = RebuildMemoPayload(memos[id].Content)

\* C4: after a successful DeleteTag(REMOVE_FROM_CONTENT) every entity whose
\* cache held the path still exists and its content holds no occurrence of
\* the marker.
C4_RemoveLeavesNoMarker ==
    (resp.op = "DeleteTag" /\ req.strategy = "REMOVE_FROM_CONTENT" /\ resp.code = "OK") =>
        LET path == PathUnescape(req.path).val
        IN  \A id \in CallerMatches(prev, req.user, path) :
                /\ memos[id].state = "live"
                /\ ~StrContains(memos[id].Content, MarkerOf(path))

\* C5: after a successful DeleteTag(DELETE_RELATED_MEMOS) exactly the
\* caller's entities whose cache held the path are deleted, the response
\* lists exactly those, and every other entity is unchanged.
C5_DeleteRelatedExact ==
    (resp.op = "DeleteTag" /\ req.strategy = "DELETE_RELATED_MEMOS" /\ resp.code = "OK") =>
        LET hit == CallerMatches(prev, req.user, PathUnescape(req.path).val)
        IN  /\ \A id \in hit : memos[id].state = "deleted"
            /\ \A id \in MemoIDs \ hit : memos[id] = prev[id]
            /\ Range(resp.ids) = hit
            /\ Len(resp.ids) = Cardinality(hit)

\* One entity of the caller was deleted next to a live entity of another
\* user that carries the same path and stays.
C5_Witness ==
    /\ resp.op = "DeleteTag" /\ req.strategy = "DELETE_RELATED_MEMOS" /\ resp.code = "OK"
    /\ Len(resp.ids) = 1
    /\ \E id \in MemoIDs :
          /\ memos[id].state = "live"
          /\ memos[id].CreatorID # req.user
          /\ \E i \in 1..Len(memos[id].Tags) :
                memos[id].Tags[i].Name = PathUnescape(req.path).val

\* C6: DeleteTag with a strategy other than the two supported ones fails
\* with InvalidArgument and changes no entity.
C6_UnsupportedStrategyRejected ==
    (resp.op = "DeleteTag"
        /\ req.strategy \notin {"REMOVE_FROM_CONTENT", "DELETE_RELATED_MEMOS"}) =>
        /\ resp.code = "InvalidArgument"
        /\ memos = prev

\* An unsupported strategy was rejected although an entity matches the path.
C6_Witness ==
    /\ resp.op = "DeleteTag"
    /\ req.strategy = "STRATEGY_UNSPECIFIED"
    /\ resp.code = "InvalidArgument"
    /\ PathUnescape(req.path).ok
    /\ CallerMatches(prev, req.user, PathUnescape(req.path).val) # {}

\* The selection of BatchDeleteMemosByTag: exact membership, or with
\* includeChildren a cached path equal to path or under path + "/".
BatchSelection(store, user, path, includeChildren) ==
    {id \in MemoIDs :
        /\ store[id].state = "live"
        /\ store[id].CreatorID = user
        /\ \E i \in 1..Len(store[id].Tags) :
              LET n == store[id].Tags[i].Name
              IN  n = path \/ (includeChildren /\ HasPrefix(n, path \o <<"/">>))}

\* C7: a dry run changes nothing in the store and, when it succeeds, lists
\* the ids of all entities the selection matches.
C7_DryRunChangesNothing ==
    (resp.op = "BatchDeleteMemosByTag" /\ req.dryRun) =>
        /\ memos = prev
        /\ resp.code = "OK" =>
              /\ Range(resp.ids) = BatchSelection(prev, req.user, req.path, req.flag)
              /\ Len(resp.ids) = Cardinality(Range(resp.ids))

\* A dry run with includeChildren listed an entity and left it in place.
C7_Witness ==
    /\ resp.op = "BatchDeleteMemosByTag" /\ req.dryRun /\ req.flag
    /\ resp.code = "OK"
    /\ \E id \in Range(resp.ids) : memos[id].state = "live"

\* C8: a successful real run with includeChildren leaves no entity of the
\* caller under the path, counts the ids it lists, and reports every path
\* equal to or under the path found in the cache of a deleted entity.
C8_BatchDeleteRemovesSubtree ==
    (resp.op = "BatchDeleteMemosByTag" /\ ~req.dryRun /\ req.flag /\ resp.code = "OK") =>
        /\ BatchSelection(memos, req.user, req.path, TRUE) = {}
        /\ resp.count = Len(resp.ids)
        /\ \A id \in Range(resp.ids) :
              \A i \in 1..Len(prev[id].Tags) :
                  LET n == prev[id].Tags[i].Name
                  IN  (n = req.path \/ HasPrefix(n, req.path \o <<"/">>))
                          => n \in resp.paths

\* A real run deleted an entity that carries a path strictly under the one
\* requested.
C8_Witness ==
    /\ resp.op = "BatchDeleteMemosByTag" /\ ~req.dryRun /\ req.flag /\ resp.code = "OK"
    /\ \E id \in Range(resp.ids) :
          /\ memos[id].state = "deleted"
          /\ \E i \in 1..Len(prev[id].Tags) :
                HasPrefix(prev[id].Tags[i].Name, req.path \o <<"/">>)

\* C9: a successful real run reports only realized work: every reported
\* path is in the cache of an entity this call deleted, every listed id was
\* deleted by this call, and with no match no path is reported.
C9_ReportsOnlyRealizedWork ==
    (resp.op = "BatchDeleteMemosByTag" /\ ~req.dryRun /\ resp.code = "OK") =>
        /\ \A p \in resp.paths :
              \E id \in Range(resp.ids) :
                  \E i \in 1..Len(prev[id].Tags) : prev[id].Tags[i].Name = p
        /\ \A id \in Range(resp.ids) :
              prev[id].state = "live" /\ memos[id].state = "deleted"
        /\ resp.ids = <<>> => resp.paths = {}

SubstringRemoval(content, path) ==
    TrimSpace(ReplaceAll(ReplaceAll(content, MarkerOf(path) \o <<" ">>, <<>>),
                         MarkerOf(path), <<>>))

\* The entities a multi-entity mutation selects, in processing order.
SelectedBy(request) ==
    IF request.op = "BatchDeleteMemosByTag"
    THEN IdSeq(BatchSelection(prev, request.user, request.path, request.flag), 1)
    ELSE IdSeq(CallerMatches(prev, request.user, PathUnescape(request.path).val), 1)

\* The row a multi-entity mutation commits for one selected entity.
Committed(request, row) ==
    CASE request.op = "RenameTag" ->
             [row EXCEPT !.Content =
                 ReplaceAll(row.Content, MarkerOf(PathUnescape(request.path).val),
                            MarkerOf(request.newPath))]
      [] request.op = "DeleteTag" /\ request.strategy = "REMOVE_FROM_CONTENT" ->
             [row EXCEPT !.Content =
                 SubstringRemoval(row.Content, PathUnescape(request.path).val)]
      [] OTHER -> [NoMemo EXCEPT !.state = "deleted"]

\* C11: when persisting the k-th selected entity of RenameTag, DeleteTag or
\* a real BatchDeleteMemosByTag fails, the call returns Internal, the k-1
\* entities before it stay mutated or deleted, and the k-th, all later
\* selected entities and all other entities are unchanged.
C11_PartialFailureKeepsPrefix ==
    (/\ resp.op \in {"RenameTag", "DeleteTag", "BatchDeleteMemosByTag"}
     /\ req.failAt > 0) =>
        LET ids == SelectedBy(req)
        IN  /\ resp.code = "Internal"
            /\ req.failAt <= Len(ids)
            /\ \A i \in 1..Len(ids) :
                  memos[ids[i]] = IF i < req.failAt THEN Committed(req, prev[ids[i]])
                                  ELSE prev[ids[i]]
            /\ \A id \in MemoIDs \ Range(ids) : memos[id] = prev[id]

\* The second of two selected entities failed: the first is changed, the
\* second is as before.
C11_Witness ==
    /\ resp.op \in {"RenameTag", "DeleteTag", "BatchDeleteMemosByTag"}
    /\ resp.code = "Internal"
    /\ req.failAt = 2
    /\ \E id \in MemoIDs : memos[id] # prev[id]
    /\ \E id \in Range(SelectedBy(req)) : memos[id] = prev[id]

\* C12: after any content write every path in an entity's tag cache starts
\* with "/" and no path occurs twice in the cache, for flat and for
\* hierarchical tags.
C12_CachePathsNormalized ==
    \A id \in MemoIDs :
        memos[id].state = "live" =>
            LET tags == memos[id].Tags
            IN  /\ \A i \in 1..Len(tags) : HasPrefix(tags[i].Name, <<"/">>)
                /\ \A i, j \in 1..Len(tags) : tags[i].Name = tags[j].Name => i = j

\* The aggregator's form of a cached path: with a leading "/".
Normalized(n) == IF HasPrefix(n, <<"/">>) THEN n ELSE <<"/">> \o n

\* The caller's live entities.
CallerEntities(store, user) ==
    {id \in MemoIDs : store[id].state = "live" /\ store[id].CreatorID = user}

\* A response of ListTags over all of the caller's tags.
FullListing == resp.op = "ListTags" /\ req.path = <<>>

\* C13: every node the aggregator produces has directCount equal to the
\* number of distinct entities whose cache holds the node's path, which is
\* the number of ids in its MemoIds.
C13_DirectCountIsEntityCount ==
    FullListing =>
        \A i \in 1..Len(resp.tags) :
            LET node == resp.tags[i]
                holders == {id \in CallerEntities(memos, req.user) :
                               \E k \in 1..Len(memos[id].Tags) :
                                   Normalized(memos[id].Tags[k].Name) = node.Name}
            IN  /\ node.DirectMemoCount = Cardinality(holders)
                /\ node.DirectMemoCount = Len(node.MemoIds)

RECURSIVE SumDirectCounts(_)
SumDirectCounts(tags) ==
    IF tags = <<>> THEN 0
    ELSE Head(tags).DirectMemoCount + SumDirectCounts(Tail(tags))

\* C14: the sum of directCount over all aggregated nodes is the number of
\* (entity, cached tag path) membership pairs of the input.
C14_DirectCountsSumToPairs ==
    FullListing =>
        SumDirectCounts(resp.tags) =
            Cardinality({pair \in CallerEntities(memos, req.user) \X
                                  UNION {TagNames(memos[id].Tags) : id \in MemoIDs} :
                            pair[2] \in TagNames(memos[pair[1]].Tags)})

\* C15: after hierarchy computation O is in childPaths(P) exactly when O
\* starts with P + "/" and has one more segment than P, and childPaths(P)
\* lists no path twice.
C15_ChildPathsAreDirectChildren ==
    (resp.op = "ListTags" /\ req.flag) =>
        \A i \in 1..Len(resp.tags) :
            LET P == resp.tags[i]
            IN  /\ \A j \in 1..Len(resp.tags) :
                      LET O == resp.tags[j]
                      IN  (O.Name \in Range(P.ChildPaths)) <=>
                              /\ HasPrefix(O.Name, P.Name \o <<"/">>)
                              /\ Len(O.PathSegments) = Len(P.PathSegments) + 1
                /\ \A c \in Range(P.ChildPaths) : \E j \in 1..Len(resp.tags) :
                      resp.tags[j].Name = c
                /\ \A k, l \in 1..Len(P.ChildPaths) :
                      P.ChildPaths[k] = P.ChildPaths[l] => k = l

\* The nodes reachable from S along child paths that name a node.
RECURSIVE ReachFrom(_, _)
ReachFrom(S, tagMap) ==
    LET next == S \cup {c \in DOMAIN tagMap :
                           \E n \in S : c \in Range(tagMap[n].ChildPaths)}
    IN  IF next = S THEN S ELSE ReachFrom(next, tagMap)

RECURSIVE SumDirectOver(_, _)
SumDirectOver(S, tagMap) ==
    IF S = {} THEN 0
    ELSE LET n == CHOOSE x \in S : TRUE
         IN  tagMap[n].DirectMemoCount + SumDirectOver(S \ {n}, tagMap)

\* C16: on any aggregated map, cyclic ones included, the total-count
\* computation ends with a finite value in which the direct count of each
\* node reachable from the start is added once and no other count is added.
C16_TotalCountsEachNodeOnce ==
    result.done =>
        /\ result.value \in Nat
        /\ result.value = SumDirectOver(ReachFrom({result.name}, given), given)

\* The total was computed for a node that lists a child which lists it back.
C16_Witness ==
    /\ result.done
    /\ \E b \in DOMAIN given \ {result.name} :
          /\ b \in Range(given[result.name].ChildPaths)
          /\ result.name \in Range(given[b].ChildPaths)

\* C17: on one store state GetTag(p) returns NotFound exactly when ListTags
\* (no prefix, hierarchy included) returns no node with path p, and
\* otherwise returns the node with the directCount, totalCount, parentPath
\* and set of childPaths that ListTags reports for p.
C17_GetTagAgreesWithListTags ==
    (resp.op = "GetTag" /\ PathUnescape(req.path).ok) =>
        LET p == PathUnescape(req.path).val
            listing == ListTagsResult(memos, req.user, <<>>, TRUE, TRUE)
            listed == {i \in 1..Len(listing) : listing[i].Name = p}
        IN  /\ resp.code = "NotFound" <=> listed = {}
            /\ listed # {} =>
                  /\ resp.code = "OK"
                  /\ \A i \in listed :
                        LET got == resp.tags[1]
                        IN  /\ got.Name = p
                            /\ got.DirectMemoCount = listing[i].DirectMemoCount
                            /\ got.TotalMemoCount = listing[i].TotalMemoCount
                            /\ got.ParentPath = listing[i].ParentPath
                            /\ Range(got.ChildPaths) = Range(listing[i].ChildPaths)

\* The nodes of a list in document order, each with its depth; kind,
\* payload, order and nesting of every node are in it.
RECURSIVE Preorder(_, _)
Preorder(nodes, depth) ==
    IF nodes = <<>> THEN <<>>
    ELSE <<[type |-> Head(nodes).type, content |-> Head(nodes).content,
            depth |-> depth]>>
             \o Preorder(Head(nodes).children, depth + 1)
             \o Preorder(Tail(nodes), depth)

C19_SubstringRemovalExact ==
    /\ (resp.op = "DeleteTag" /\ req.strategy = "REMOVE_FROM_CONTENT"
            /\ resp.code = "OK") =>
          \A id \in CallerMatches(prev, req.user, PathUnescape(req.path).val) :
              /\ memos[id].state = "live"
              /\ memos[id].Content =
                     SubstringRemoval(prev[id].Content, PathUnescape(req.path).val)
    /\ RemoveFromContent(<<"b", " ", "#", "a", " ", "#", "b", " ", "b">>, <<"a">>)
           = <<"b", " ", "#", "b", " ", "b">>

\* A removal in which all three steps acted: a marker with its space, a
\* marker at the end, and the space left before it.
C19_Witness ==
    /\ resp.op = "DeleteTag" /\ req.strategy = "REMOVE_FROM_CONTENT" /\ resp.code = "OK"
    /\ \E id \in Range(resp.ids) :
          LET m == MarkerOf(PathUnescape(req.path).val)
              before == prev[id].Content
              first == ReplaceAll(before, m \o <<" ">>, <<>>)
              second == ReplaceAll(first, m, <<>>)
          IN  /\ first # before
              /\ second # first
              /\ memos[id].Content # second

\* C20: RenameTag, DeleteTag and BatchDeleteMemosByTag with an empty tag
\* path (the old or the new path of a rename) fail with InvalidArgument and
\* change no entity.
C20_EmptyPathRejected ==
    (\/ resp.op \in {"DeleteTag", "BatchDeleteMemosByTag"} /\ req.path = <<>>
     \/ resp.op = "RenameTag" /\ (req.path = <<>> \/ req.newPath = <<>>)) =>
        /\ resp.code = "InvalidArgument"
        /\ memos = prev

\* The raw tags of the Tag leaves of a content.
TagLeaves(content) ==
    LET visited == TraverseASTNodes(Parse(content))
    IN  {visited[i].content : i \in {k \in 1..Len(visited) : visited[k].type = "Tag"}}

\* C21: when the entity's cache holds the requested tag, a successful
\* DeleteMemoTag leaves no Tag leaf for the tag in the content and the tag
\* out of the cache, and a successful RenameMemoTag leaves content and cache
\* with the new tag instead of the old one, for flat and hierarchical tags.
C21_SingleEntityEditEffective ==
    (/\ resp.op \in {"DeleteMemoTag", "RenameMemoTag"}
     /\ resp.code = "OK"
     /\ req.parent \in CallerMatches(prev, req.user, req.path)) =>
        LET after == memos[req.parent]
            leaves == {buildTagNode(t).Name : t \in TagLeaves(after.Content)}
        IN  /\ req.path \notin TagNames(after.Tags)
            /\ req.path \notin leaves
            /\ resp.op = "RenameMemoTag" =>
                  /\ buildTagNode(req.newPath).Name \in TagNames(after.Tags)
                  /\ buildTagNode(req.newPath).Name \in leaves

\* The distinct elements of a sequence in the order of their first
\* occurrence.
RECURSIVE FirstSeen(_, _)
FirstSeen(seq, seen) ==
    IF seq = <<>> THEN seen
    ELSE FirstSeen(Tail(seq),
                   IF \E i \in 1..Len(seen) : seen[i] = Head(seq) THEN seen
                   ELSE Append(seen, Head(seq)))

\* The raw tags of a node list in document order.
TagsInOrder(nodes) ==
    LET pre == SelectSeq(Preorder(nodes, 0), LAMBDA e : e.type = "Tag")
    IN  [i \in 1..Len(pre) |-> pre[i].content]

\* C22: extraction collects every Tag leaf reachable through Paragraph,
\* Heading, Blockquote, List, the list items, Bold and Italic, in pre-order,
\* keeping the first occurrence of each raw tag.
C22_ExtractionCollectsEveryTag ==
    result.done => result.value = FirstSeen(TagsInOrder(given), <<>>)

\* The path without its last "/" and what follows it.
RECURSIVE DropLastSegment(_)
DropLastSegment(path) ==
    IF path = <<>> THEN <<>>
    ELSE IF path[Len(path)] = "/" THEN SubSeq(path, 1, Len(path) - 1)
    ELSE DropLastSegment(SubSeq(path, 1, Len(path) - 1))

\* The paths of a listing.
ListedNames(tags) == {tags[i].Name : i \in 1..Len(tags)}

C24_AffectedPathsRespectBoundary ==
    (resp.op = "BatchDeleteMemosByTag" /\ req.flag /\ resp.code = "OK") =>
        \A p \in resp.paths :
            p = req.path \/ HasPrefix(p, req.path \o <<"/">>)

\* C25: on one store state, tag path and includeChildren value the dry run
\* and the real run without a failing deletion return the same deleted ids,
\* the same count and the same set of affectedTagPaths.
C25_DryRunPredictsRealRun ==
    (/\ resp.op = "BatchDeleteMemosByTag"
     /\ resp.code = "OK"
     /\ req.failAt = 0) =>
        LET ids == IdSeq(BatchSelection(prev, req.user, req.path, req.flag), 1)
            dry == BatchDryRun(ids, prev, req)
            real == BatchDeleteLoop(ids, 1, prev, prev, <<>>, {req.path}, req)
        IN  /\ dry.deleted = real.deleted
            /\ dry.paths = real.paths
            /\ resp.ids = IF req.dryRun THEN real.deleted ELSE dry.deleted
            /\ resp.count = Len(IF req.dryRun THEN real.deleted ELSE dry.deleted)
            /\ resp.paths = IF req.dryRun THEN real.paths ELSE dry.paths

\* A dry run with includeChildren reported a path besides the requested one
\* for an entity it listed.
C25_Witness ==
    /\ resp.op = "BatchDeleteMemosByTag" /\ req.dryRun /\ req.flag
    /\ resp.code = "OK"
    /\ resp.ids # <<>>
    /\ resp.paths \ {req.path} # {}

\* A caller's live entity whose cache holds a descendant path of the given
\* path and not the path itself.
OnlyDescendants(store, user, path) ==
    {id \in MemoIDs \ CallerMatches(store, user, path) :
        /\ store[id].state = "live"
        /\ store[id].CreatorID = user
        /\ \E i \in 1..Len(store[id].Tags) :
              HasPrefix(store[id].Tags[i].Name, path \o <<"/">>)}

NewTagPathOf(rawNew) ==
    IF HasPrefix(rawNew, <<"/">>) THEN rawNew ELSE <<"/">> \o rawNew

\* C27: in the state a successful RenameTag(old, new) with new different
\* from old leaves, a ListTags returns no node for old, GetTag(old) returns
\* NotFound, GetTag(new) returns a node holding the affected entities, and a
\* second RenameTag of old finds no entity.
C27_RenameVisibleToReads ==
    (/\ resp.op = "RenameTag"
     /\ resp.code = "OK"
     /\ MarkerOf(PathUnescape(req.path).val) # MarkerOf(req.newPath)) =>
        LET old == PathUnescape(req.path).val
            listing == ListTagsResult(memos, req.user, <<>>, TRUE, FALSE)
        IN  /\ \A i \in 1..Len(listing) : listing[i].Name \notin {old, Normalized(old)}
            /\ \A r \in GetTagResults(memos, req.user, req.path, TRUE) :
                  r.code = "NotFound"
            /\ \E new \in {req.newPath, NewTagPathOf(req.newPath)} :
                  \A r \in GetTagResults(memos, req.user, new, TRUE) :
                      /\ r.code = "OK"
                      /\ Range(resp.ids) \subseteq Range(r.tags[1].MemoIds)
            /\ ListMemos(memos, req.user, RenameFilter(req.flag), old) = <<>>

\* C28: every node ListTags returns, with includeHierarchy true or false,
\* has totalCount >= directCount >= 1.
C28_TotalAtLeastDirect ==
    resp.op = "ListTags" =>
        \A i \in 1..Len(resp.tags) :
            /\ resp.tags[i].TotalMemoCount >= resp.tags[i].DirectMemoCount
            /\ resp.tags[i].DirectMemoCount >= 1

\* C29: when two concurrent DeleteMemoTag calls on one memo, for different
\* tags both in its cache, have both returned success, the memo's content
\* and cache hold neither tag, whatever the interleaving of their steps.
C29_NoLostUpdate ==
    (\A p \in Procs : calls[p].pc = "done" /\ calls[p].code = "OK") =>
        \A p \in Procs :
            /\ calls[p].request.path \notin TagNames(memos[ConcMemo].Tags)
            /\ calls[p].request.path \notin TagLeaves(memos[ConcMemo].Content)

\* C30: after any sequence of CreateCategory and UpdateCategory calls every
\* NORMAL category's stored path is its name when it has no parent and
\* otherwise its parent's stored path, "/" and its name.
C30_CategoryPathInvariant ==
    \A id \in CategoryIDs :
        categories[id].RowStatus = "NORMAL" =>
            categories[id].Path =
                IF categories[id].ParentID = 0 THEN categories[id].Name
                ELSE categories[categories[id].ParentID].Path \o <<"/">>
                         \o categories[id].Name

====
